---- MODULE Spec2Model ----
(***************************************************************************)
(* Verification model of the tender-tales platform front end:              *)
(*   - the map page (loadData, debounce, health check, unmount), in its    *)
(*     two revisions ui/src/app/map/page.tsx ("ui") and the older copy     *)
(*     unnamed/part_009 ("legacy");                                        *)
(*   - ApiClient.makeRequest and fetchSimilarityHeatmap;                   *)
(*   - the similarity engine of the specification (compute_similarity);    *)
(*   - the sitemap route with its in-memory cache and revalidation;        *)
(*   - the NextAuth redirect callback;                                     *)
(*   - the ProtectedRoute component;                                       *)
(*   - the chat of the Kadal page, in its three revisions.                 *)
(***************************************************************************)
EXTENDS Integers, Sequences, FiniteSets, TLC

(* ------------------------------ bounds --------------------------------- *)
MaxRequests == 2
NumBounds == 2
NumYears == 1
MaxPending == 1
MaxTimers == 2
DebounceSteps == 2
MaxClockSteps == 3
StepsPerDuration == 2
MaxDiscovering == 2
MaxPageEdits == 1
MaxUrlLen == 4
MaxPathLen == 3
MaxInputLen == 2
MaxSubmits == 2

(* ------------------------- program constants --------------------------- *)
maxRetries == 2
baseTimeout == 30000
timeoutStep == 15000
retryDelayUnit == 1000
debounceMs == 300
CACHE_DURATION == 60 * 60 * 1000
FirstYear == 2017
LastYear == 2024

YearOptions == (LastYear - NumYears + 1)..LastYear
BoundsIds == 1..NumBounds

(* ------------------------- abstract strings ---------------------------- *)
(* A JavaScript value used as text is modelled by its kind and by the set  *)
(* of substrings that fetchSimilarityHeatmap tests with includes().        *)
Markers == {"timed out", "cancelled", "Failed after", "auth"}

Str(marks) == [kind |-> "string", marks |-> marks]
Absent == [kind |-> "absent", marks |-> {}]
ObjectValue == [kind |-> "object", marks |-> {}]

Truthy(t) == t.kind # "absent"
Includes(t, m) == m \in t.marks
Concat(prefixMarks, t) == Str(prefixMarks \cup t.marks)

(* JavaScript a || b *)
OrElse(a, b) == IF Truthy(a) THEN a ELSE b

(* ------------------------- backend responses --------------------------- *)
ErrorTypes == {"AUTHENTICATION_ERROR", "CONNECTION_ERROR", "VALIDATION_ERROR", "SERVER_ERROR"}
ServiceErrorTypes == {"AUTHENTICATION_ERROR", "VALIDATION_ERROR", ""}

Resp(status, json, success, et, message, error) ==
    [status |-> status, json |-> json, success |-> success, error_type |-> et,
     message |-> message, error |-> error]

NoResp == Resp(0, FALSE, FALSE, "", Absent, Absent)

(* text of the body as response.text() returns it *)
BodyText(r) == Str(r.message.marks \cup r.error.marks)

OkResponses == {Resp(200, TRUE, TRUE, "", Str({}), Absent)}

ServiceFailures ==
    {Resp(200, TRUE, FALSE, et, Str({}), Str({})) : et \in ServiceErrorTypes}

ClientErrors ==
    { Resp(400, TRUE, FALSE, "VALIDATION_ERROR", Str({}), Str({})),
      Resp(400, TRUE, FALSE, "VALIDATION_ERROR", Absent, ObjectValue),
      Resp(401, TRUE, FALSE, "AUTHENTICATION_ERROR", Str({"auth"}), Str({})),
      Resp(404, FALSE, FALSE, "", Absent, Absent) }

ServerErrors ==
    { Resp(503, TRUE, FALSE, "AUTHENTICATION_ERROR", Str({}), Str({})),
      Resp(503, TRUE, FALSE, "AUTHENTICATION_ERROR", Str({"auth"}), Str({})),
      Resp(500, TRUE, FALSE, "SERVER_ERROR", Str({}), Str({})) }

(* a 2xx response whose body is not JSON: response.json() throws *)
BadBodies == {Resp(200, FALSE, FALSE, "", Absent, Absent)}

Responses == OkResponses \cup ServiceFailures \cup ClientErrors \cup ServerErrors \cup BadBodies

IsOk(r) == r.status >= 200 /\ r.status < 300
(* faulty variant: only 400 is taken for a client error *)
IsClientErrorMutant(r) == r.status = 400
(* "response.status >= 400 && response.status < 500" *)
IsClientError(r) == r.status >= 400 /\ r.status < 500

(* ---------------- ApiClient.makeRequest: result values ------------------ *)
(* { data?, error? } as makeRequest returns it *)
ApiData(r) == [data |-> r, error |-> Absent]
ApiError(t) == [data |-> NoResp, error |-> t]
NoResult == [data |-> NoResp, error |-> Absent]

(* 4xx branch: errorJson.message || errorJson.error || `HTTP ${status}`,   *)
(* or `HTTP ${status}: ${errorText}` when the body is not JSON             *)
ClientErrorResult(r) ==
    IF r.json
    THEN ApiError(OrElse(OrElse(r.message, r.error), Str({})))
    ELSE ApiError(Concat({}, BodyText(r)))

(* lastError = `HTTP ${status}: ${errorText}` *)
ServerErrorText(r) == Concat({}, BodyText(r))

(* lastError chosen in the catch block from the kind of exception *)
CatchText(exc) ==
    CASE exc = "AbortError" -> Str({"timed out"})
      [] exc = "FetchTypeError" -> Str({})
      [] OTHER -> Str({})

(* `Failed after ${maxRetries + 1} attempts: ${lastError}` *)
FailedAfterResult(t) == ApiError(Concat({"Failed after"}, t))

(* faulty variant: a manual cancellation is reported like a timeout *)
CancelledResultMutant == ApiError(Str({"Failed after", "timed out"}))
CancelledResult == ApiError(Str({"cancelled"}))

(* every value makeRequest can return *)
ApiResults ==
    {ApiData(r) : r \in OkResponses \cup ServiceFailures}
    \cup {ClientErrorResult(r) : r \in ClientErrors}
    \cup {ApiError(ServerErrorText(r)) : r \in ServerErrors}
    \cup {FailedAfterResult(CatchText(e)) : e \in {"AbortError", "FetchTypeError", "SyntaxError"}}
    \cup {CancelledResult}

(* ----------------------- fetchSimilarityHeatmap ------------------------- *)
NoError == [errorType |-> "null", message |-> "null", error |-> Absent]
EarthEngineError(error, message, errorType) ==
    [errorType |-> errorType, message |-> message, error |-> error]

Outcome(kind, err) == [kind |-> kind, err |-> err]

(* lastError as the page uses it: null or the errorType it displays *)
NoLastError == "null"
PageError(err) == err.errorType

(* the part of fetchSimilarityHeatmap after makeRequest has returned *)
HeatmapUserMessage(e) ==
    IF Includes(e, "timed out") THEN "Processing timed out"
    ELSE IF Includes(e, "cancelled") THEN "Request was cancelled"
    ELSE IF Includes(e, "Failed after") THEN "Multiple connection attempts failed"
    ELSE IF Includes(e, "auth") THEN "Earth Engine authentication error"
    ELSE "Failed to connect to Earth Engine API"

HeatmapErrorType(e) ==
    IF Includes(e, "timed out") THEN "CONNECTION_ERROR"
    ELSE IF Includes(e, "cancelled") THEN "CONNECTION_ERROR"
    ELSE IF Includes(e, "Failed after") THEN "CONNECTION_ERROR"
    ELSE IF Includes(e, "auth") THEN "AUTHENTICATION_ERROR"
    ELSE "CONNECTION_ERROR"

(* faulty variant: the "!result.data?.success" branch is missing *)
FetchSimilarityHeatmapReturnMutant(result) ==
    IF Truthy(result.error)
    THEN IF result.error.kind = "object"
         THEN Outcome("throw", NoError)
         ELSE Outcome("error", EarthEngineError(result.error,
                                                HeatmapUserMessage(result.error),
                                                HeatmapErrorType(result.error)))
    ELSE Outcome("data", NoError)

FetchSimilarityHeatmapReturn(result) ==
    IF Truthy(result.error)
    THEN IF result.error.kind = "object"
         THEN Outcome("throw", NoError)   \* result.error.includes is not a function
         ELSE Outcome("error", EarthEngineError(result.error,
                                                HeatmapUserMessage(result.error),
                                                HeatmapErrorType(result.error)))
    ELSE IF ~(result.data.json /\ result.data.success)
         THEN Outcome("error",
                  EarthEngineError(OrElse(result.data.error, Str({})),
                                   "service error",
                                   IF result.data.error_type # ""
                                   THEN result.data.error_type
                                   ELSE "CONNECTION_ERROR"))
         ELSE Outcome("data", NoError)


(* =========================== the map page =============================== *)
VARIABLES
    page,               \* which revision of map/page.tsx runs: "ui" or "legacy"
    mounted,            \* the MapPage component is mounted
    mapRef,             \* mapRef.current is set (and getBounds() returns bounds)
    bounds,             \* the viewport mapRef.current.getBounds() returns
    referenceYear, targetYear,
    isLoading, apiStatus, lastError, heatmapData, currentBounds,
    cap,                \* isLoading / currentBounds as captured by the memoised loadData
    loadDataTimeout,    \* loadDataTimeout.current: id of a timeout, 0 = null
    timers,             \* debounce timeouts set and neither fired nor cleared
    currentRequest,     \* currentRequest.current: id of its AbortController, 0 = null
    processingTimer,    \* processingTimer.current: id of an interval, 0 = null
    intervals,          \* intervals started by setInterval and not yet cleared
    reqs,               \* every heatmap request started so far
    healthChecks,       \* pending apiClient.healthCheck() calls of the connection effect
    initialLoadTimers,  \* pending setTimeout(() => loadData(false), 1000)
    lastCall            \* what the most recent loadData invocation did

pageVars == <<page, mounted, mapRef, bounds, referenceYear, targetYear, isLoading,
              apiStatus, lastError, heatmapData, currentBounds, cap, loadDataTimeout,
              timers, currentRequest, processingTimer, intervals, reqs, healthChecks,
              initialLoadTimers, lastCall>>

VARIABLES
    caller,         \* "heatmap": fetchSimilarityHeatmap (passes its abort signal);
                    \* "embeddings": fetchEmbeddingData (passes no signal)
    input,          \* arguments of the fetch* call: bounds and years
    apiPc,          \* "idle", "attempt", "fetching", "delay", "done", "returned"
    attempt,        \* loop variable of makeRequest
    fetchCount,     \* calls of fetch(url, ...) made so far
    signalAborted,  \* options.signal.aborted
    timeoutMs,      \* timeout armed for the pending attempt, 0 = none
    delays,         \* retry delays waited so far, in ms
    bodyRead,       \* response the network has delivered in full while the await
                    \* of this attempt has not continued yet, NoResp = none
    lastResponse,   \* response received in the latest attempt, NoResp = none
    lastErrorText,  \* makeRequest's local lastError
    apiResult,      \* what makeRequest returned
    fetchResult     \* what fetchSimilarityHeatmap / fetchEmbeddingData returned

apiVars == <<caller, input, apiPc, attempt, fetchCount, signalAborted, timeoutMs, delays,
             bodyRead, lastResponse, lastErrorText, apiResult, fetchResult>>

VARIABLES
    gridRef, gridTarget,    \* the two EmbeddingGrids handed to compute_similarity
    simPc,                  \* "ready" or "done"
    simResult,              \* what compute_similarity returned
    renderCell,             \* the SimilarityGrid cell handed to the color mapping
    renderPc,               \* "ready" or "done"
    pixel                   \* the RGBA pixel the color mapping produced

simVars == <<gridRef, gridTarget, simPc, simResult, renderCell, renderPc, pixel>>

VARIABLES
    sitemapCache,       \* sitemap-utils: let sitemapCache
    now,                \* Date.now(), ms since the server started
    pageFiles,          \* revision of the page files under src/app
    discovering,        \* siteUrl of each GET /sitemap.xml awaiting discoverPages
    sitemapResponse,    \* the sitemap response sent by the last step, if it sent one
    revalidateStatus,   \* status of the revalidation POST answered by the last step, or 0
    stored,             \* history: content and time of the last setCachedSitemap call
    revalidatedEntry    \* history: the cache entry was there at a successful revalidation

sitemapVars == <<sitemapCache, now, pageFiles, discovering, sitemapResponse,
                 revalidateStatus, stored, revalidatedEntry>>

VARIABLES
    redirectUrl,        \* redirect({ url, baseUrl }): url
    redirectBase,       \* redirect({ url, baseUrl }): baseUrl
    redirectPc,         \* "ready" or "done"
    redirectResult      \* the URL the callback returned

redirectVars == <<redirectUrl, redirectBase, redirectPc, redirectResult>>

VARIABLES
    sessionStatus,      \* useSession().status
    session,            \* useSession().data
    pathname,           \* window.location.pathname
    rendered,           \* what ProtectedRoute returned from its last render
    effectPending,      \* the effect is scheduled: its dependencies changed
    pushed              \* the URL given to router.push by the last step, if any

routeVars == <<sessionStatus, session, pathname, rendered, effectPending, pushed>>

VARIABLES
    kadalPage,          \* revision: "ui" (ui/src/app/kadal/page.tsx), "part_003", "part_002"
    kadalStatus,        \* useSession().status
    chatInput,          \* the text in the chat box
    chatMessages,       \* the messages shown
    chatLoading,        \* isLoading
    showSignInModal,
    queries,            \* every query given to fetch(.../api/mcp/query), oldest first
    pendingQueries,     \* submissions awaiting processMCPQuery: index into queries
    kadalView,          \* viewState: "initial" or "navigated"
    satelliteLayer,     \* satelliteLayers is not empty
    pendingSatellite    \* a 'moveend' callback is registered or running

kadalVars == <<kadalPage, kadalStatus, chatInput, chatMessages, chatLoading, showSignInModal,
               queries, pendingQueries, kadalView, satelliteLayer, pendingSatellite>>

webVars == <<sitemapVars, redirectVars, routeVars, kadalVars>>

(* everything but the state of one machine *)
notSitemap == <<pageVars, apiVars, simVars, redirectVars, routeVars, kadalVars>>
notRedirect == <<pageVars, apiVars, simVars, sitemapVars, routeVars, kadalVars>>
notRoute == <<pageVars, apiVars, simVars, sitemapVars, redirectVars, kadalVars>>
notKadal == <<pageVars, apiVars, simVars, sitemapVars, redirectVars, routeVars>>

NoBoundsKey == <<>>
BoundsKey(b, ry, ty) == <<b, ry, ty>>

(* the loadData function of one render: useCallback(..., [referenceYear, targetYear]) *)
Closure(ry, ty, c) == [ry |-> ry, ty |-> ty, isLoading |-> c.isLoading,
                       currentBounds |-> c.currentBounds]
NoCapture == [isLoading |-> FALSE, currentBounds |-> NoBoundsKey]
CurrentClosure == Closure(referenceYear, targetYear, cap)

(* a started request: its AbortController's signal and whether the call of  *)
(* fetchSimilarityHeatmap is still pending                                 *)
(* failed: makeRequest reported a failure for it (set when it settles)     *)
Request == [aborted |-> FALSE, inflight |-> TRUE, failed |-> FALSE]

(* what the most recent loadData(true) did: returned early ("nomap",        *)
(* "skipped"), or started a request: with the years of an older render     *)
(* ("stale"), beside a request left running ("unaborted"), or as intended  *)
(* ("started")                                                             *)
Call(kind, cancelPrevious, c, rs) ==
    IF ~cancelPrevious THEN lastCall
    ELSE IF kind # "started" THEN kind
    ELSE IF ~(c.ry = referenceYear /\ c.ty = targetYear) THEN "stale"
    ELSE IF \E i \in 1..Len(rs) : rs[i].inflight /\ ~rs[i].aborted THEN "unaborted"
    ELSE "started"

Aborted(id) == id # 0 /\ reqs[id].aborted
InFlight == {i \in 1..Len(reqs) : reqs[i].inflight}
LiveInFlight == {i \in InFlight : ~reqs[i].aborted}

(* faulty variant: the signal stays as it was *)
AbortMutant(rs, id) == rs

(* controller.abort() *)
Abort(rs, id) == [rs EXCEPT ![id].aborted = TRUE]

InitLegacyYears == <<2022, 2023>>
InitUiYears == <<2020, 2024>>

PageInit ==
    /\ page \in {"ui", "legacy"}
    /\ mounted = TRUE
    /\ mapRef = FALSE
    /\ bounds = 1
    /\ referenceYear = IF page = "ui" THEN InitUiYears[1] ELSE InitLegacyYears[1]
    /\ targetYear = IF page = "ui" THEN InitUiYears[2] ELSE InitLegacyYears[2]
    /\ isLoading = FALSE
    /\ apiStatus = "loading"
    /\ lastError = NoLastError
    /\ heatmapData = 0
    /\ currentBounds = NoBoundsKey
    /\ cap = NoCapture
    /\ loadDataTimeout = 0
    /\ timers = {}
    /\ currentRequest = 0
    /\ processingTimer = 0
    /\ intervals = {}
    /\ reqs = <<>>
    /\ healthChecks = <<Closure(referenceYear, targetYear, cap)>>
    /\ initialLoadTimers = <<>>
    /\ lastCall = "none"

(* "Skip if we're already processing ..." *)
SkipGuard(c, key) ==
    IF page = "ui"
    THEN currentRequest # 0 /\ ~reqs[currentRequest].aborted
    ELSE key = c.currentBounds /\ c.isLoading

(* const loadData = useCallback(async (cancelPrevious = true) => { ... up to the await *)
LoadData(c, cancelPrevious) ==
    LET key == BoundsKey(bounds, c.ry, c.ty)
        id == Len(reqs) + 1
        cancelled == IF cancelPrevious /\ currentRequest # 0 /\ ~reqs[currentRequest].aborted
                     THEN Abort(reqs, currentRequest)
                     ELSE reqs
    IN  IF ~mapRef
        THEN /\ lastCall' = Call("nomap", cancelPrevious, c, reqs)
             /\ UNCHANGED <<currentRequest, reqs, isLoading, apiStatus, currentBounds,
                            processingTimer, intervals>>
        ELSE IF SkipGuard(c, key)
        THEN /\ lastCall' = Call("skipped", cancelPrevious, c, reqs)
             /\ UNCHANGED <<currentRequest, reqs, isLoading, apiStatus, currentBounds,
                            processingTimer, intervals>>
        ELSE /\ Len(reqs) < MaxRequests
             /\ reqs' = Append(cancelled, Request)
             /\ currentRequest' = id
             /\ isLoading' = TRUE
             /\ apiStatus' = "loading"
             /\ currentBounds' = IF page = "legacy" THEN key ELSE currentBounds
             /\ processingTimer' = id
             /\ intervals' = intervals \cup {id}
             /\ lastCall' = Call("started", cancelPrevious, c, cancelled)

(* clearInterval(processingTimer.current); processingTimer.current = null *)
ClearProcessingTimer ==
    /\ intervals' = IF processingTimer # 0 THEN intervals \ {processingTimer} ELSE intervals
    /\ processingTimer' = 0

UnexpectedError == EarthEngineError(Str({}), "An unexpected error occurred", "CONNECTION_ERROR")


(* what makeRequest returns for request id. A signal that is not aborted   *)
(* never gives 'Request cancelled'. A fetch or body read still pending     *)
(* when abort() is called rejects with AbortError, and makeRequest returns *)
(* 'Request cancelled'; abort() called once the body has been read, before *)
(* the continuation of the await runs, leaves the result as it was read.   *)
SettleResults(id) ==
    IF reqs[id].aborted
    THEN ApiResults
    ELSE ApiResults \ {CancelledResult}

(* the backend call failed: makeRequest returned an error, or a body with  *)
(* success: false                                                          *)
Failed(r) == Truthy(r.error) \/ ~(r.data.json /\ r.data.success)

(* state a useState setter leaves behind: no-op once the page is unmounted *)
SetState(old, new) == IF mounted THEN new ELSE old

(* "if (abortController.signal.aborted) return" after the await *)
CancelledBeforeProcessing(id) == reqs[id].aborted

(* "catch (error)": cancellation errors return, any other error is shown   *)
IsCancellationError(o) == FALSE   \* a TypeError: no AbortError, no 'aborted' in message

(* loadData from the await of fetchSimilarityHeatmap to the end of finally *)
LoadDataSettle(id, r) ==
    LET o == FetchSimilarityHeatmapReturn(r) IN
    /\ id \in InFlight
    /\ r \in SettleResults(id)
    /\ reqs' = [reqs EXCEPT ![id].inflight = FALSE, ![id].failed = Failed(r)]
    /\ IF o.kind = "throw"
       THEN IF IsCancellationError(o)
            THEN UNCHANGED <<lastError, apiStatus, heatmapData>>
            ELSE /\ lastError' = SetState(lastError, PageError(UnexpectedError))
                 /\ apiStatus' = SetState(apiStatus, "error")
                 /\ UNCHANGED heatmapData
       ELSE IF CancelledBeforeProcessing(id)
       THEN UNCHANGED <<lastError, apiStatus, heatmapData>>
       ELSE IF o.kind = "error"
       THEN /\ lastError' = SetState(lastError, PageError(o.err))
            /\ apiStatus' = SetState(apiStatus, "error")
            /\ heatmapData' = SetState(heatmapData, 0)
       ELSE /\ heatmapData' = SetState(heatmapData, id)
            /\ apiStatus' = SetState(apiStatus, "success")
            /\ lastError' = SetState(lastError, NoLastError)
    /\ isLoading' = IF reqs[id].aborted THEN isLoading ELSE SetState(isLoading, FALSE)
    /\ ClearProcessingTimer
    /\ UNCHANGED <<webVars, apiVars, simVars, page, mounted, mapRef, bounds, referenceYear, targetYear, currentBounds,
                   cap, loadDataTimeout, timers, currentRequest, healthChecks, initialLoadTimers,
                   lastCall>>

(* the map instance becomes available through mapRef *)
MapReady ==
    /\ mounted /\ ~mapRef
    /\ mapRef' = TRUE
    /\ UNCHANGED <<webVars, apiVars, simVars, page, mounted, bounds, referenceYear, targetYear, isLoading, apiStatus,
                   lastError, heatmapData, currentBounds, cap, loadDataTimeout, timers,
                   currentRequest, processingTimer, intervals, reqs, healthChecks,
                   initialLoadTimers, lastCall>>

(* the clock advances in steps of TickMs *)
TickMs == debounceMs \div DebounceSteps

(* one pending timeout: the loadData it will call and the ms left *)
Timeout(id, c) == [id |-> id, c |-> c, left |-> debounceMs]

(* faulty variant: the pending timeout is left to fire *)
ClearTimeoutMutant(ts, id) == ts

(* clearTimeout(id): no effect when id is null or not pending *)
ClearTimeout(ts, id) == {t \in ts : t.id # id}

(* the id setTimeout returns: one that no pending timeout has *)
FreshTimer(ts) == CHOOSE i \in 1..(MaxTimers + 1) :
                    /\ \A t \in ts : t.id # i
                    /\ \A k \in 1..(i - 1) : \E t \in ts : t.id = k

(* onMove: clearTimeout(loadDataTimeout.current); setTimeout(() => loadData(true), 300) *)
handleViewStateChange(b) ==
    LET cleared == ClearTimeout(timers, loadDataTimeout)
        id == FreshTimer(cleared)
    IN  /\ mounted /\ mapRef
        /\ Cardinality(cleared) < MaxTimers
        /\ bounds' = b
        /\ timers' = cleared \cup {Timeout(id, CurrentClosure)}
        /\ loadDataTimeout' = id
        /\ UNCHANGED <<webVars, apiVars, simVars, page, mounted, mapRef, referenceYear, targetYear, isLoading, apiStatus,
                       lastError, heatmapData, currentBounds, cap, currentRequest,
                       processingTimer, intervals, reqs, healthChecks, initialLoadTimers,
                       lastCall>>

(* time passes by one step; a timeout that is due fires first *)
Tick ==
    /\ timers # {}
    /\ \A t \in timers : t.left > 0
    /\ timers' = {[t EXCEPT !.left = IF t.left > TickMs THEN t.left - TickMs ELSE 0] : t \in timers}
    /\ UNCHANGED <<webVars, apiVars, simVars, page, mounted, mapRef, bounds, referenceYear, targetYear, isLoading,
                   apiStatus, lastError, heatmapData, currentBounds, cap, loadDataTimeout,
                   currentRequest, processingTimer, intervals, reqs, healthChecks,
                   initialLoadTimers, lastCall>>

(* a debounce timeout fires, 300 ms after it was set: loadData(true) *)
DebounceFire ==
    \E t \in timers :
        /\ t.left = 0
        /\ timers' = timers \ {t}
        /\ LoadData(t.c, TRUE)
        /\ UNCHANGED <<webVars, apiVars, simVars, page, mounted, mapRef, bounds, referenceYear, targetYear, lastError,
                       heatmapData, cap, loadDataTimeout, healthChecks, initialLoadTimers>>

(* Refresh button: onClick={() => loadData(true)} disabled={isLoading} *)
Refresh ==
    /\ mounted /\ ~isLoading
    /\ LoadData(CurrentClosure, TRUE)
    /\ UNCHANGED <<webVars, apiVars, simVars, page, mounted, mapRef, bounds, referenceYear, targetYear, lastError,
                   heatmapData, cap, loadDataTimeout, timers, healthChecks, initialLoadTimers>>

ErrorOverlayShown == mounted /\ apiStatus = "error" /\ lastError # NoLastError

(* Retry button of the error overlay *)
Retry ==
    /\ ErrorOverlayShown /\ ~isLoading
    /\ LoadData(CurrentClosure, TRUE)
    /\ UNCHANGED <<webVars, apiVars, simVars, page, mounted, mapRef, bounds, referenceYear, targetYear, lastError,
                   heatmapData, cap, loadDataTimeout, timers, healthChecks, initialLoadTimers>>

(* Dismiss button: setApiStatus('loading'); setLastError(null) *)
Dismiss ==
    /\ ErrorOverlayShown
    /\ apiStatus' = "loading"
    /\ lastError' = NoLastError
    /\ UNCHANGED <<webVars, apiVars, simVars, page, mounted, mapRef, bounds, referenceYear, targetYear, isLoading,
                   heatmapData, currentBounds, cap, loadDataTimeout, timers, currentRequest,
                   processingTimer, intervals, reqs, healthChecks, initialLoadTimers,
                   lastCall>>

(* a year <select> changes: re-render, loadData is re-created and the      *)
(* connection effect (deps [loadData]) runs again                          *)
YearChange(ry, ty) ==
    /\ mounted
    /\ <<ry, ty>> # <<referenceYear, targetYear>>
    /\ Len(healthChecks) + Len(initialLoadTimers) < MaxPending
    /\ referenceYear' = ry
    /\ targetYear' = ty
    /\ cap' = IF page = "legacy" /\ isLoading
              THEN [isLoading |-> isLoading, currentBounds |-> currentBounds]
              ELSE NoCapture
    /\ healthChecks' = Append(healthChecks, Closure(ry, ty, cap'))
    /\ UNCHANGED <<webVars, apiVars, simVars, page, mounted, mapRef, bounds, isLoading, apiStatus, lastError,
                   heatmapData, currentBounds, loadDataTimeout, timers, currentRequest,
                   processingTimer, intervals, reqs, initialLoadTimers, lastCall>>

setReferenceYear(y) == y # referenceYear /\ YearChange(y, targetYear)
setTargetYear(y) == y # targetYear /\ YearChange(referenceYear, y)

RemoveAt(q, i) == SubSeq(q, 1, i - 1) \o SubSeq(q, i + 1, Len(q))

BackendConnectionFailed ==
    EarthEngineError(Str({}), "Backend connection failed", "CONNECTION_ERROR")

(* testConnection after await apiClient.healthCheck() *)
HealthCheckDone(i, ok) ==
    /\ i \in 1..Len(healthChecks)
    /\ healthChecks' = RemoveAt(healthChecks, i)
    /\ IF ok
       THEN /\ initialLoadTimers' = Append(initialLoadTimers, healthChecks[i])
            /\ UNCHANGED <<lastError, apiStatus>>
       ELSE /\ lastError' = SetState(lastError, PageError(BackendConnectionFailed))
            /\ apiStatus' = SetState(apiStatus, "error")
            /\ UNCHANGED initialLoadTimers
    /\ UNCHANGED <<webVars, apiVars, simVars, page, mounted, mapRef, bounds, referenceYear, targetYear, isLoading,
                   heatmapData, currentBounds, cap, loadDataTimeout, timers, currentRequest,
                   processingTimer, intervals, reqs, lastCall>>

(* setTimeout(() => loadData(false), 1000) fires *)
InitialLoadFire(i) ==
    /\ i \in 1..Len(initialLoadTimers)
    /\ initialLoadTimers' = RemoveAt(initialLoadTimers, i)
    /\ LoadData(initialLoadTimers[i], FALSE)
    /\ UNCHANGED <<webVars, apiVars, simVars, page, mounted, mapRef, bounds, referenceYear, targetYear, lastError,
                   heatmapData, cap, loadDataTimeout, timers, healthChecks>>

(* cleanup of the first effect; React also resets mapRef.current *)
Unmount ==
    /\ mounted
    /\ mounted' = FALSE
    /\ mapRef' = FALSE
    /\ timers' = ClearTimeout(timers, loadDataTimeout)
    /\ reqs' = IF currentRequest # 0 /\ ~reqs[currentRequest].aborted
               THEN Abort(reqs, currentRequest) ELSE reqs
    /\ currentRequest' = 0
    /\ ClearProcessingTimer
    /\ UNCHANGED <<webVars, apiVars, simVars, page, bounds, referenceYear, targetYear, isLoading, apiStatus, lastError,
                   heatmapData, currentBounds, cap, loadDataTimeout, healthChecks,
                   initialLoadTimers, lastCall>>

PageNext ==
    \/ MapReady
    \/ \E b \in BoundsIds : handleViewStateChange(b)
    \/ Tick
    \/ DebounceFire
    \/ Refresh
    \/ Retry
    \/ Dismiss
    \/ \E y \in YearOptions : setReferenceYear(y)
    \/ \E y \in YearOptions : setTargetYear(y)
    \/ \E i \in 1..MaxPending, ok \in BOOLEAN : HealthCheckDone(i, ok)
    \/ \E i \in 1..MaxPending : InitialLoadFire(i)
    \/ \E id \in 1..MaxRequests : \E r \in ApiResults : LoadDataSettle(id, r)
    \/ Unmount

(* ================= ApiClient.makeRequest, step by step ================== *)
InputYears == {FirstYear - 1, FirstYear, LastYear, LastYear + 1}
InputLatitudes == {36, 37}
Inputs == [north : InputLatitudes, south : InputLatitudes,
           referenceYear : InputYears, targetYear : InputYears]

NoOutcome == Outcome("none", NoError)

SignalGiven == caller = "heatmap"

ApiIdle ==
    /\ apiPc = "idle" /\ attempt = 0 /\ fetchCount = 0 /\ signalAborted = FALSE
    /\ timeoutMs = 0 /\ delays = <<>> /\ bodyRead = NoResp /\ lastResponse = NoResp
    /\ lastErrorText = Str({}) /\ apiResult = NoResult /\ fetchResult = NoOutcome

ApiInit ==
    /\ caller \in {"heatmap", "embeddings"}
    /\ input \in Inputs
    /\ ApiIdle

(* fetchSimilarityHeatmap / fetchEmbeddingData up to the first loop iteration *)
FetchCall ==
    /\ apiPc = "idle"
    /\ apiPc' = "attempt"
    /\ UNCHANGED <<webVars, pageVars, simVars, caller, input, attempt, fetchCount, signalAborted, timeoutMs, delays,
                   bodyRead, lastResponse, lastErrorText, apiResult, fetchResult>>

(* progressive timeout, armed only "if (!signal)" *)
AttemptTimeout(k) == IF SignalGiven THEN 0 ELSE baseTimeout + k * timeoutStep

(* one loop iteration up to "await fetch(url, ...)"; fetch called with a    *)
(* signal that is already aborted rejects at once, without a request, and  *)
(* the catch block returns 'Request cancelled'                             *)
ApiAttempt ==
    /\ apiPc = "attempt"
    /\ timeoutMs' = AttemptTimeout(attempt)
    /\ fetchCount' = fetchCount + 1
    /\ lastResponse' = NoResp
    /\ IF SignalGiven /\ signalAborted
       THEN /\ apiPc' = "done"
            /\ lastErrorText' = CatchText("AbortError")
            /\ apiResult' = CancelledResult
       ELSE /\ apiPc' = "fetching"
            /\ UNCHANGED <<lastErrorText, apiResult>>
    /\ UNCHANGED <<webVars, pageVars, simVars, caller, input, attempt, signalAborted, delays, bodyRead,
                   fetchResult>>

Return(result) ==
    /\ apiPc' = "done"
    /\ apiResult' = result
    /\ UNCHANGED <<attempt, delays>>

(* faulty variant: the delay does not grow with the attempt *)
RetryDelayMutant == retryDelayUnit
(* await new Promise(resolve => setTimeout(resolve, 1000 * (attempt + 1))) *)
RetryDelay == retryDelayUnit * (attempt + 1)

(* "if (attempt === maxRetries) return/break", else wait and continue *)
RetryOr(result) ==
    IF attempt = maxRetries
    THEN Return(result)
    ELSE /\ apiPc' = "delay"
         /\ delays' = Append(delays, RetryDelay)
         /\ UNCHANGED <<attempt, apiResult>>

(* the catch block for an exception that is not a manual cancellation *)
Catch(exc) ==
    /\ lastErrorText' = CatchText(exc)
    /\ RetryOr(FailedAfterResult(CatchText(exc)))

(* the request of this attempt is on the network, nothing has come back *)
FetchPending == apiPc = "fetching" /\ bodyRead = NoResp /\ ~(SignalGiven /\ signalAborted)

(* the network delivers response r in full; the await continues later *)
ApiBodyRead(r) ==
    /\ FetchPending
    /\ bodyRead' = r
    /\ UNCHANGED <<webVars, pageVars, simVars, caller, input, apiPc, attempt, fetchCount, signalAborted,
                   timeoutMs, delays, lastResponse, lastErrorText, apiResult, fetchResult>>

(* fetch and the read of the body resolve with response r: makeRequest     *)
(* continues; an abort() that came after the body was read changes nothing *)
ApiResponse(r) ==
    /\ apiPc = "fetching" /\ bodyRead = r /\ r # NoResp
    /\ bodyRead' = NoResp
    /\ lastResponse' = r
    /\ IF ~IsOk(r)
       THEN IF IsClientError(r)
            THEN Return(ClientErrorResult(r)) /\ UNCHANGED lastErrorText
            ELSE /\ lastErrorText' = ServerErrorText(r)
                 /\ RetryOr(ApiError(ServerErrorText(r)))
       ELSE IF r.json
            THEN Return(ApiData(r)) /\ UNCHANGED lastErrorText
            ELSE Catch("SyntaxError")
    /\ UNCHANGED <<webVars, pageVars, simVars, caller, input, fetchCount, signalAborted, timeoutMs, fetchResult>>

(* fetch rejects: the network failed *)
ApiNetworkError ==
    /\ FetchPending
    /\ Catch("FetchTypeError")
    /\ UNCHANGED <<webVars, pageVars, simVars, caller, input, fetchCount, signalAborted, timeoutMs, bodyRead,
                   lastResponse, fetchResult>>

(* timeoutController.abort() fires: AbortError, options.signal undefined *)
ApiTimeout ==
    /\ FetchPending /\ timeoutMs > 0
    /\ Catch("AbortError")
    /\ UNCHANGED <<webVars, pageVars, simVars, caller, input, fetchCount, signalAborted, timeoutMs, bodyRead,
                   lastResponse, fetchResult>>

(* fetch rejects with AbortError because options.signal is aborted *)
ApiCancelled ==
    /\ apiPc = "fetching" /\ SignalGiven /\ signalAborted
    /\ bodyRead' = NoResp
    /\ lastErrorText' = CatchText("AbortError")
    /\ Return(CancelledResult)
    /\ UNCHANGED <<webVars, pageVars, simVars, caller, input, fetchCount, signalAborted, timeoutMs, lastResponse,
                   fetchResult>>

(* the retry delay elapses: continue with attempt + 1 *)
ApiDelayDone ==
    /\ apiPc = "delay"
    /\ apiPc' = "attempt"
    /\ attempt' = attempt + 1
    /\ UNCHANGED <<webVars, pageVars, simVars, caller, input, fetchCount, signalAborted, timeoutMs, delays,
                   bodyRead, lastResponse, lastErrorText, apiResult, fetchResult>>

(* the caller aborts the signal it passed *)
CallerAbort ==
    /\ SignalGiven /\ ~signalAborted
    /\ apiPc \in {"attempt", "fetching", "delay"}
    /\ signalAborted' = TRUE
    /\ UNCHANGED <<webVars, pageVars, simVars, caller, input, apiPc, attempt, fetchCount, timeoutMs, delays,
                   bodyRead, lastResponse, lastErrorText, apiResult, fetchResult>>

(* the part of fetchEmbeddingData after makeRequest has returned *)
FetchEmbeddingDataReturn(result) ==
    IF Truthy(result.error)
    THEN Outcome("error", EarthEngineError(result.error, "Failed to connect to Earth Engine API",
                                           "CONNECTION_ERROR"))
    ELSE IF ~(result.data.json /\ result.data.success)
         THEN Outcome("error",
                  EarthEngineError(OrElse(result.data.error, Str({})),
                                   "service error",
                                   IF result.data.error_type # ""
                                   THEN result.data.error_type
                                   ELSE "CONNECTION_ERROR"))
         ELSE Outcome("data", NoError)

(* fetchSimilarityHeatmap / fetchEmbeddingData returns (or throws) *)
FetchReturn ==
    /\ apiPc = "done"
    /\ apiPc' = "returned"
    /\ fetchResult' = IF caller = "heatmap"
                      THEN FetchSimilarityHeatmapReturn(apiResult)
                      ELSE FetchEmbeddingDataReturn(apiResult)
    /\ UNCHANGED <<webVars, pageVars, simVars, caller, input, attempt, fetchCount, signalAborted, timeoutMs, delays,
                   bodyRead, lastResponse, lastErrorText, apiResult>>

ApiNext ==
    \/ FetchCall
    \/ ApiAttempt
    \/ \E r \in Responses : ApiBodyRead(r)
    \/ \E r \in Responses : ApiResponse(r)
    \/ ApiNetworkError
    \/ ApiTimeout
    \/ ApiCancelled
    \/ ApiDelayDone
    \/ CallerAbort
    \/ FetchReturn

(* ==================== similarity engine (spec 4.2) ====================== *)
VecDim == 2
MaxComp == 1
MaxCells == 2
ScoreScale == 100
Epsilon2 == 0

Components == (0 - MaxComp)..MaxComp
Vectors == [1..VecDim -> Components]
Shapes == {sh \in (1..MaxCells) \X (1..MaxCells) : sh[1] * sh[2] <= MaxCells}
GridsOf(sh) == [1..sh[1] -> [1..sh[2] -> Vectors]]
Grids == UNION {GridsOf(sh) : sh \in Shapes}

Shape(g) == <<Len(g), Len(g[1])>>

RECURSIVE SumTo(_, _)
SumTo(f, n) == IF n = 0 THEN 0 ELSE f[n] + SumTo(f, n - 1)

Dot(a, b) == SumTo([i \in 1..VecDim |-> a[i] * b[i]], VecDim)
Norm2(a) == Dot(a, a)

(* floor of the square root *)
ISqrt(x) == CHOOSE k \in 0..ScoreScale : k * k <= x /\ (k + 1) * (k + 1) > x

(* no-data vector: norm below epsilon *)
NearZero(a) == Norm2(a) <= Epsilon2

(* faulty variant: the dot product is not divided by the norms *)
CosineMutant(a, b) == ScoreScale * Dot(a, b)
(* dot(a, b) / (norm(a) * norm(b)) in units of 1 / ScoreScale *)
Cosine(a, b) ==
    LET d == Dot(a, b)
        m == ISqrt((ScoreScale * ScoreScale * d * d) \div (Norm2(a) * Norm2(b)))
    IN  IF d < 0 THEN 0 - m ELSE m

(* faulty variant: the cosine is not shifted into [0, 1] *)
ShiftMutant(sim) == sim
(* (sim + 1) / 2 *)
Shift(sim) == (sim + ScoreScale) \div 2

MissingCell == [missing |-> TRUE, score |-> 0]
(* faulty variant: only the reference vector is tested for no-data; a zero *)
(* target vector is scored as a cosine of 0                                *)
CellScoreMutant(a, b) ==
    IF NearZero(a) THEN MissingCell
    ELSE IF NearZero(b) THEN [missing |-> FALSE, score |-> Shift(0)]
    ELSE [missing |-> FALSE, score |-> Shift(Cosine(a, b))]
CellScore(a, b) ==
    IF NearZero(a) \/ NearZero(b)
    THEN MissingCell
    ELSE [missing |-> FALSE, score |-> Shift(Cosine(a, b))]

Unavailable == [available |-> FALSE, min |-> 0, max |-> 0, mean |-> 0]

Flatten(g) ==
    [k \in 1..(Len(g) * Len(g[1])) |-> g[((k - 1) \div Len(g[1])) + 1][((k - 1) % Len(g[1])) + 1]]

(* faulty variant: a missing cell enters the statistics as score 0 *)
RECURSIVE PickMutant(_, _)
PickMutant(cells, n) ==
    IF n = 0 THEN <<>>
    ELSE Append(PickMutant(cells, n - 1), cells[n].score)

RECURSIVE Pick(_, _)
Pick(cells, n) ==
    IF n = 0 THEN <<>>
    ELSE IF cells[n].missing THEN Pick(cells, n - 1)
    ELSE Append(Pick(cells, n - 1), cells[n].score)

(* min, max, mean over the non-missing cells *)
Statistics(g) ==
    LET scores == Pick(Flatten(g), Len(g) * Len(g[1])) IN
    IF scores = <<>> THEN Unavailable
    ELSE [available |-> TRUE,
          min |-> CHOOSE x \in {scores[i] : i \in 1..Len(scores)} :
                      \A i \in 1..Len(scores) : x <= scores[i],
          max |-> CHOOSE x \in {scores[i] : i \in 1..Len(scores)} :
                      \A i \in 1..Len(scores) : x >= scores[i],
          mean |-> SumTo(scores, Len(scores)) \div Len(scores)]

(* the Statistics panel of the map page: "{heatmapData?.statistics && (...)}" *)
StatisticsPanel(stats) ==
    IF stats.available
    THEN [shown |-> TRUE, min |-> stats.min, max |-> stats.max, avg |-> stats.mean]
    ELSE [shown |-> FALSE, min |-> 0, max |-> 0, avg |-> 0]

NoSimResult == [status |-> "none", grid |-> <<>>, statistics |-> Unavailable]

(* faulty variant: grids of different shape are cut to their common part *)
compute_similarityMutant(g1, g2) ==
    LET rows == IF Len(g1) <= Len(g2) THEN Len(g1) ELSE Len(g2)
        cols == IF Len(g1[1]) <= Len(g2[1]) THEN Len(g1[1]) ELSE Len(g2[1])
        grid == [r \in 1..rows |-> [c \in 1..cols |-> CellScore(g1[r][c], g2[r][c])]]
    IN  [status |-> "ok", grid |-> grid, statistics |-> Statistics(grid)]

compute_similarity(g1, g2) ==
    IF Shape(g1) # Shape(g2)
    THEN [status |-> "SHAPE_MISMATCH", grid |-> <<>>, statistics |-> Unavailable]
    ELSE LET grid == [r \in 1..Len(g1) |->
                        [c \in 1..Len(g1[1]) |-> CellScore(g1[r][c], g2[r][c])]]
         IN  [status |-> "ok", grid |-> grid, statistics |-> Statistics(grid)]

SimIdle ==
    /\ gridRef = <<>> /\ gridTarget = <<>> /\ simPc = "ready" /\ simResult = NoSimResult

SimInit ==
    /\ gridRef \in Grids
    /\ gridTarget \in Grids
    /\ simPc = "ready"
    /\ simResult = NoSimResult

ComputeSimilarity ==
    /\ simPc = "ready"
    /\ simPc' = "done"
    /\ simResult' = compute_similarity(gridRef, gridTarget)
    /\ UNCHANGED <<webVars, pageVars, apiVars, gridRef, gridTarget, renderCell, renderPc, pixel>>

SimNext == ComputeSimilarity

(* ================= rendering / color mapping (spec 4.3) ================= *)
(* the anchors of the ramp, as the legend of the map page lists them:      *)
(* #000004, #2C105C, #711F81, #B63679, #EE605E, #FDAE78, #FCFDBF           *)
Anchors ==
    << <<0, 0, 4>>, <<44, 16, 92>>, <<113, 31, 129>>, <<182, 54, 121>>,
       <<238, 96, 94>>, <<253, 174, 120>>, <<252, 253, 191>> >>

(* "Key color points" of the legend: score (in 1 / ScoreScale) and color *)
LegendKeyPoints ==
    { <<0, <<0, 0, 4>>>>, <<ScoreScale \div 2, <<182, 54, 121>>>>,
      <<ScoreScale, <<252, 253, 191>>>> }

Intervals == Len(Anchors) - 1

(* index i of the enclosing interval [p_i, p_(i+1)], p_i = i / Intervals *)
AnchorIndex(s) ==
    IF (s * Intervals) \div ScoreScale >= Intervals
    THEN Intervals - 1
    ELSE (s * Intervals) \div ScoreScale

(* (s - p_i) * Intervals, in 1 / ScoreScale: t = Offset / ScoreScale *)
Offset(s) == s * Intervals - AnchorIndex(s) * ScoreScale

(* faulty variant: the color of the anchor below the score, not interpolated *)
ColorAtMutant(s) == Anchors[AnchorIndex(s) + 1]
(* each RGB channel interpolated linearly between the enclosing anchors *)
ColorAt(s) ==
    LET lo == Anchors[AnchorIndex(s) + 1]
        hi == Anchors[AnchorIndex(s) + 2]
    IN  [ch \in 1..3 |-> lo[ch] + ((hi[ch] - lo[ch]) * Offset(s)) \div ScoreScale]

Opaque == 255
Transparent == 0
NoPixel == [rgb |-> <<0, 0, 0>>, alpha |-> 0 - 1]

(* a missing cell is fully transparent, a scored cell opaque *)
RenderPixel(cell) ==
    IF cell.missing
    THEN [rgb |-> <<0, 0, 0>>, alpha |-> Transparent]
    ELSE [rgb |-> ColorAt(cell.score), alpha |-> Opaque]

RenderCells == {MissingCell} \cup {[missing |-> FALSE, score |-> x] : x \in 0..ScoreScale}

RenderIdle == renderCell = MissingCell /\ renderPc = "ready" /\ pixel = NoPixel

RenderInit == renderCell \in RenderCells /\ renderPc = "ready" /\ pixel = NoPixel

Render ==
    /\ renderPc = "ready"
    /\ renderPc' = "done"
    /\ pixel' = RenderPixel(renderCell)
    /\ UNCHANGED <<webVars, pageVars, apiVars, gridRef, gridTarget, simPc, simResult, renderCell>>

RenderNext == Render

(* ================= GET /sitemap.xml and its revalidation ================ *)
Hosts == {"site.example", "other.example"}
ForwardedProtos == {"", "http"}     \* "": no x-forwarded-proto header

(* const siteUrl = `${protocol}://${host}` with protocol defaulting to https *)
SiteUrl(host, proto) == <<IF proto = "" THEN "https" ELSE proto, host>>

ClockStep == CACHE_DURATION \div StepsPerDuration

NoCache == [content |-> <<>>, timestamp |-> -1]
NoSitemapResponse == [status |-> 0, body |-> <<>>, cached |-> FALSE, siteUrl |-> <<>>]
NoPages == 0

(* generateSitemapXML(siteUrl, pages): every <loc> is siteUrl + route *)
generateSitemapXML(siteUrl, pages) == <<"urlset", siteUrl, pages>>

(* the fallback sitemap of the catch block: the home page only *)
FallbackSitemap(siteUrl) == <<"fallback", siteUrl, NoPages>>

(* the protocol and host in the <loc> elements of a sitemap *)
LocOrigin(xml) == xml[2]

(* faulty variant: the entry never expires *)
ExpiredMutant(cache, t) == FALSE

(* now - sitemapCache.timestamp > CACHE_DURATION *)
Expired(cache, t) == t - cache.timestamp > CACHE_DURATION

(* getCachedSitemap(): the value returned, <<>> for null *)
getCachedSitemap ==
    IF sitemapCache = NoCache THEN <<>>
    ELSE IF Expired(sitemapCache, now) THEN <<>>
    ELSE sitemapCache.content

(* getCachedSitemap(): the entry is discarded when it has expired *)
CacheAfterGet ==
    IF sitemapCache # NoCache /\ Expired(sitemapCache, now) THEN NoCache ELSE sitemapCache

(* setCachedSitemap(content) *)
setCachedSitemap(content) ==
    /\ sitemapCache' = [content |-> content, timestamp |-> now]
    /\ stored' = [content |-> content, timestamp |-> now]
    /\ revalidatedEntry' = FALSE

SitemapInit ==
    /\ sitemapCache = NoCache
    /\ now = 0
    /\ pageFiles = 1
    /\ discovering = <<>>
    /\ sitemapResponse = NoSitemapResponse
    /\ revalidateStatus = 0
    /\ stored = NoCache
    /\ revalidatedEntry = FALSE

(* GET up to the first await: answer from the cache or start discoverPages *)
SitemapGet(host, proto) ==
    LET siteUrl == SiteUrl(host, proto)
        cachedSitemap == getCachedSitemap
    IN  /\ sitemapCache' = CacheAfterGet
        /\ revalidatedEntry' = (revalidatedEntry /\ sitemapCache' # NoCache)
        /\ revalidateStatus' = 0
        /\ IF cachedSitemap # <<>>
           THEN /\ sitemapResponse' = [status |-> 200, body |-> cachedSitemap,
                                       cached |-> TRUE, siteUrl |-> siteUrl]
                /\ UNCHANGED discovering
           ELSE /\ Len(discovering) < MaxDiscovering
                /\ discovering' = Append(discovering, siteUrl)
                /\ sitemapResponse' = NoSitemapResponse
        /\ UNCHANGED <<notSitemap, now, pageFiles, stored>>

(* discoverPages resolves: generate, cache and answer. A directory that    *)
(* cannot be scanned is logged and gives no pages (scanned = FALSE)        *)
SitemapGenerated(i, scanned) ==
    /\ i \in 1..Len(discovering)
    /\ LET sitemap == generateSitemapXML(discovering[i],
                                         IF scanned THEN pageFiles ELSE NoPages)
       IN  /\ setCachedSitemap(sitemap)
           /\ sitemapResponse' = [status |-> 200, body |-> sitemap, cached |-> FALSE,
                                  siteUrl |-> discovering[i]]
    /\ discovering' = RemoveAt(discovering, i)
    /\ revalidateStatus' = 0
    /\ UNCHANGED <<notSitemap, now, pageFiles>>

(* the try block throws: the fallback sitemap is answered and not cached *)
SitemapFallback(i) ==
    /\ i \in 1..Len(discovering)
    /\ sitemapResponse' = [status |-> 200, body |-> FallbackSitemap(discovering[i]),
                           cached |-> FALSE, siteUrl |-> discovering[i]]
    /\ discovering' = RemoveAt(discovering, i)
    /\ revalidateStatus' = 0
    /\ UNCHANGED <<notSitemap, sitemapCache, now, pageFiles, stored,
                   revalidatedEntry>>

(* POST to the revalidation endpoint: 401 without the bearer token,        *)
(* 500 when revalidatePath throws, else 200. revalidatePath purges the     *)
(* framework's caches for the path; sitemapCache is not among them         *)
SitemapRevalidate(authorized, thrown) ==
    /\ revalidateStatus' = IF ~authorized THEN 401 ELSE IF thrown THEN 500 ELSE 200
    /\ revalidatedEntry' = IF revalidateStatus' = 200
                           THEN sitemapCache # NoCache ELSE revalidatedEntry
    /\ sitemapResponse' = NoSitemapResponse
    /\ UNCHANGED <<notSitemap, sitemapCache, now, pageFiles, discovering,
                   stored>>

(* time passes *)
ClockTick ==
    /\ now < MaxClockSteps * ClockStep
    /\ now' = now + ClockStep
    /\ sitemapResponse' = NoSitemapResponse
    /\ revalidateStatus' = 0
    /\ UNCHANGED <<notSitemap, sitemapCache, pageFiles, discovering, stored,
                   revalidatedEntry>>

(* a deployment or an edit changes the page files *)
EditPages ==
    /\ pageFiles <= MaxPageEdits
    /\ pageFiles' = pageFiles + 1
    /\ sitemapResponse' = NoSitemapResponse
    /\ revalidateStatus' = 0
    /\ UNCHANGED <<notSitemap, sitemapCache, now, discovering, stored,
                   revalidatedEntry>>

SitemapNext ==
    \/ \E host \in Hosts, proto \in ForwardedProtos : SitemapGet(host, proto)
    \/ \E i \in 1..MaxDiscovering, scanned \in BOOLEAN : SitemapGenerated(i, scanned)
    \/ \E i \in 1..MaxDiscovering : SitemapFallback(i)
    \/ \E authorized \in BOOLEAN, thrown \in BOOLEAN : SitemapRevalidate(authorized, thrown)
    \/ ClockTick
    \/ EditPages

(* ==================== authOptions.callbacks.redirect ==================== *)
(* A URL is a sequence of pieces of text: an origin (scheme and host),     *)
(* text that continues a host name, and path segments. The pieces of the   *)
(* host come first; a URL with none is relative.                           *)
AppOrigin == "https://app.example"
OtherOrigin == "https://other.example"
HostSuffix == ".other.example"
KadalPath == "/kadal"
AccountPath == "/account"

Origins == {AppOrigin, OtherOrigin}
PathPieces == {KadalPath, AccountPath}
Pieces == Origins \cup {HostSuffix} \cup PathPieces

(* the number of leading pieces that belong to scheme and host *)
RECURSIVE HostLen(_)
HostLen(url) ==
    IF url = <<>> \/ url[1] \in PathPieces THEN 0 ELSE 1 + HostLen(Tail(url))

(* new URL(url).origin: scheme and host, <<>> for a relative URL *)
Origin(url) == SubSeq(url, 1, HostLen(url))

WellFormed(url) ==
    /\ url # <<>>
    /\ \A i \in 1..Len(url) :
          /\ url[i] \in Origins => i = 1
          /\ url[i] = HostSuffix => (i = 2 /\ url[1] \in Origins)

Urls == {url \in UNION {[1..n -> Pieces] : n \in 1..MaxUrlLen} : WellFormed(url)}
BaseUrls == {<<o>> : o \in Origins}

(* url.includes('/kadal') *)
UrlIncludes(url, piece) == \E i \in 1..Len(url) : url[i] = piece

(* url.startsWith(baseUrl): the text of url begins with the text of baseUrl *)
StartsWith(url, prefix) ==
    /\ Len(url) >= Len(prefix)
    /\ SubSeq(url, 1, Len(prefix)) = prefix

(* async redirect({ url, baseUrl }) *)
redirect(url, baseUrl) ==
    IF UrlIncludes(url, KadalPath) THEN baseUrl \o <<KadalPath>>
    ELSE IF StartsWith(url, baseUrl) THEN url
    ELSE baseUrl \o <<KadalPath>>

RedirectIdle ==
    /\ redirectUrl = <<AppOrigin>>
    /\ redirectBase = <<AppOrigin>>
    /\ redirectPc = "ready"
    /\ redirectResult = <<>>

RedirectInit ==
    /\ redirectUrl \in Urls
    /\ redirectBase \in BaseUrls
    /\ redirectPc = "ready"
    /\ redirectResult = <<>>

Redirect ==
    /\ redirectPc = "ready"
    /\ redirectPc' = "done"
    /\ redirectResult' = redirect(redirectUrl, redirectBase)
    /\ UNCHANGED <<notRedirect, redirectUrl, redirectBase>>

RedirectNext == Redirect

(* ============================ ProtectedRoute ============================ *)
NoSession == "null"
UserSession == "session"
NoPush == <<>>

(* what useSession can return: 'loading' while the session is fetched      *)
(* (with the data of an earlier fetch or none), then 'authenticated' with  *)
(* data or 'unauthenticated' without                                       *)
SessionStates == {<<"loading", NoSession>>, <<"loading", UserSession>>,
                  <<"authenticated", UserSession>>, <<"unauthenticated", NoSession>>}

(* a pathname is text: a '/' followed by names, '/' and '&' *)
PathChars == {"/", "account", "kadal", "&"}
Pathnames == {t \in UNION {[1..n -> PathChars] : n \in 1..MaxPathLen} : t[1] = "/"}

(* encodeURIComponent: '/' and '&' are escaped, names are kept *)
EncodeChar(c) == IF c = "/" THEN "%2F" ELSE IF c = "&" THEN "%26" ELSE c
encodeURIComponent(text) == [i \in 1..Len(text) |-> EncodeChar(text[i])]

(* the query string as the sign-in page reads it: a value ends at '&' *)
RECURSIVE QueryValue(_)
QueryValue(text) ==
    IF text = <<>> \/ text[1] = "&" THEN <<>>
    ELSE <<IF text[1] = "%2F" THEN "/" ELSE IF text[1] = "%26" THEN "&" ELSE text[1]>>
         \o QueryValue(Tail(text))

(* '/auth/signin?callbackUrl=' + encodeURIComponent(window.location.pathname) *)
SignInUrl(path) == <<"/auth/signin?callbackUrl=">> \o encodeURIComponent(path)

(* faulty variant: children are rendered as soon as loading has ended *)
ProtectedRenderMutant(status, data) ==
    IF status = "loading" THEN "loading" ELSE "children"

(* the element ProtectedRoute returns *)
ProtectedRender(status, data) ==
    IF status = "loading" THEN "loading"
    ELSE IF data = NoSession THEN "redirecting"
    ELSE "children"

RouteIdle ==
    /\ sessionStatus = "loading"
    /\ session = NoSession
    /\ pathname = <<"/">>
    /\ rendered = "loading"
    /\ effectPending = TRUE
    /\ pushed = NoPush

(* the component has mounted: first render done, effect scheduled *)
RouteInit ==
    /\ \E st \in SessionStates : sessionStatus = st[1] /\ session = st[2]
    /\ pathname \in Pathnames
    /\ rendered = ProtectedRender(sessionStatus, session)
    /\ effectPending = TRUE
    /\ pushed = NoPush

(* useSession returns something else: the component renders again and,     *)
(* session or status having changed, its effect is scheduled               *)
SessionChange(st) ==
    /\ st \in SessionStates
    /\ st # <<sessionStatus, session>>
    /\ sessionStatus' = st[1]
    /\ session' = st[2]
    /\ rendered' = ProtectedRender(st[1], st[2])
    /\ effectPending' = TRUE
    /\ pushed' = NoPush
    /\ UNCHANGED <<notRoute, pathname>>

(* the useEffect body *)
RouteEffect ==
    /\ effectPending
    /\ effectPending' = FALSE
    /\ pushed' = IF sessionStatus = "loading" THEN NoPush
                 ELSE IF session = NoSession THEN SignInUrl(pathname)
                 ELSE NoPush
    /\ UNCHANGED <<notRoute, sessionStatus, session, pathname, rendered>>

RouteNext ==
    \/ \E st \in SessionStates : SessionChange(st)
    \/ RouteEffect

(* ========================= the Kadal page: chat ========================= *)
KadalPages == {"ui", "part_003", "part_002"}
KadalStatuses == {"loading", "authenticated", "unauthenticated"}

(* the text of the chat box: words and blanks *)
InputChars == {" ", "go"}
ChatInputs == UNION {[1..n -> InputChars] : n \in 0..MaxInputLen}

(* String.prototype.trim *)
RECURSIVE TrimStart(_)
TrimStart(text) == IF text # <<>> /\ text[1] = " " THEN TrimStart(Tail(text)) ELSE text
RECURSIVE TrimEnd(_)
TrimEnd(text) ==
    IF text # <<>> /\ text[Len(text)] = " "
    THEN TrimEnd(SubSeq(text, 1, Len(text) - 1)) ELSE text
Trim(text) == TrimEnd(TrimStart(text))

(* what comes back for a query: the fetch rejects ("network"), the status  *)
(* is not ok ("notok"), the body is not JSON ("badjson"), a reply without  *)
(* results ("plain"), with a geocoding result ("navigate"), with one that  *)
(* says found and has no coordinates ("malformed"), with a satellite       *)
(* imagery result ("imagery") or with a geocoding result and the request   *)
(* to load imagery after the move ("navigateImagery")                      *)
QueryOutcomes == {"network", "notok", "badjson", "plain", "navigate", "malformed",
                  "imagery", "navigateImagery"}

(* processMCPQuery throws *)
QueryThrows(o) == o \in {"network", "notok", "badjson"}

(* the code after setChatMessages(botMessage) throws: coords is undefined *)
ProcessingThrows(o) == o = "malformed"

UserMessage(text) == [isUser |-> TRUE, kind |-> "query", text |-> text]
BotMessage(o) == [isUser |-> FALSE, kind |-> "reply", text |-> <<o>>]
ErrorMessage(o) == [isUser |-> FALSE, kind |-> "error", text |-> <<o>>]
SatelliteErrorMessage == [isUser |-> FALSE, kind |-> "satellite-error", text |-> <<>>]

(* faulty variant: a session that is still loading counts as signed in *)
isAuthenticatedMutant == kadalStatus # "unauthenticated"

(* const isAuthenticated = status === 'authenticated'; the oldest revision *)
(* has no session and asks nobody to sign in                               *)
isAuthenticated == kadalPage = "part_002" \/ kadalStatus = "authenticated"

KadalIdle ==
    /\ kadalPage = "ui"
    /\ kadalStatus = "loading"
    /\ chatInput = <<>>
    /\ chatMessages = <<>>
    /\ chatLoading = FALSE
    /\ showSignInModal = FALSE
    /\ queries = <<>>
    /\ pendingQueries = <<>>
    /\ kadalView = "initial"
    /\ satelliteLayer = FALSE
    /\ pendingSatellite = FALSE

KadalInit ==
    /\ kadalPage \in KadalPages
    /\ kadalStatus = "loading"
    /\ chatInput = <<>>
    /\ chatMessages = <<>>
    /\ chatLoading = FALSE
    /\ showSignInModal = FALSE
    /\ queries = <<>>
    /\ pendingQueries = <<>>
    /\ kadalView = "initial"
    /\ satelliteLayer = FALSE
    /\ pendingSatellite = FALSE

(* useSession().status changes *)
KadalSession(st) ==
    /\ kadalPage # "part_002"
    /\ st # kadalStatus
    /\ kadalStatus' = st
    /\ UNCHANGED <<notKadal, kadalPage, chatInput, chatMessages, chatLoading, showSignInModal,
                   queries, pendingQueries, kadalView, satelliteLayer, pendingSatellite>>

(* onChange of the chat box, or an example query is clicked *)
setChatInput(text) ==
    /\ text # chatInput
    /\ chatInput' = text
    /\ UNCHANGED <<notKadal, kadalPage, kadalStatus, chatMessages, chatLoading, showSignInModal,
                   queries, pendingQueries, kadalView, satelliteLayer, pendingSatellite>>

(* handleChatSubmit up to the await *)
handleChatSubmit ==
    IF Trim(chatInput) = <<>> \/ chatLoading
    THEN UNCHANGED <<notKadal, kadalVars>>
    ELSE IF ~isAuthenticated
    THEN /\ showSignInModal' = TRUE
         /\ UNCHANGED <<notKadal, kadalPage, kadalStatus, chatInput, chatMessages, chatLoading,
                        queries, pendingQueries, kadalView, satelliteLayer, pendingSatellite>>
    ELSE /\ Len(queries) < MaxSubmits
         /\ chatMessages' = Append(chatMessages, UserMessage(Trim(chatInput)))
         /\ chatInput' = <<>>
         /\ chatLoading' = TRUE
         /\ queries' = Append(queries, Trim(chatInput))
         /\ pendingQueries' = Append(pendingQueries, Len(queries) + 1)
         /\ UNCHANGED <<notKadal, kadalPage, kadalStatus, showSignInModal, kadalView,
                        satelliteLayer, pendingSatellite>>

(* what the try block appends for outcome o: the reply, and the error      *)
(* message of the catch block when something threw                         *)
Appended(o) ==
    IF QueryThrows(o) THEN <<ErrorMessage(o)>>
    ELSE IF ProcessingThrows(o) THEN <<BotMessage(o), ErrorMessage(o)>>
    ELSE <<BotMessage(o)>>

(* handleChatSubmit from the await on: try, catch and finally *)
QueryDone(i, o) ==
    /\ i \in 1..Len(pendingQueries)
    /\ pendingQueries' = SubSeq(pendingQueries, 1, i - 1)
                            \o SubSeq(pendingQueries, i + 1, Len(pendingQueries))
    /\ chatMessages' = chatMessages \o Appended(o)
    /\ chatLoading' = FALSE
    /\ kadalView' = IF o \in {"navigate", "navigateImagery"} THEN "navigated" ELSE kadalView
    /\ satelliteLayer' = IF kadalPage = "ui" /\ o = "imagery" THEN TRUE ELSE satelliteLayer
    /\ pendingSatellite' = IF kadalPage = "ui" /\ o = "navigateImagery"
                           THEN TRUE ELSE pendingSatellite
    /\ UNCHANGED <<notKadal, kadalPage, kadalStatus, chatInput, showSignInModal, queries>>

(* the 'moveend' callback: fetchViewportSatelliteImagery, then a layer or  *)
(* an error message                                                        *)
SatelliteDone(ok) ==
    /\ pendingSatellite
    /\ pendingSatellite' = FALSE
    /\ IF ok
       THEN satelliteLayer' = TRUE /\ UNCHANGED chatMessages
       ELSE chatMessages' = Append(chatMessages, SatelliteErrorMessage)
              /\ UNCHANGED satelliteLayer
    /\ UNCHANGED <<notKadal, kadalPage, kadalStatus, chatInput, chatLoading, showSignInModal,
                   queries, pendingQueries, kadalView>>

(* the 3 s timer of the effect on status: the modal opens *)
SignInModalTimer ==
    /\ kadalPage # "part_002"
    /\ kadalStatus = "unauthenticated"
    /\ ~showSignInModal
    /\ showSignInModal' = TRUE
    /\ UNCHANGED <<notKadal, kadalPage, kadalStatus, chatInput, chatMessages, chatLoading,
                   queries, pendingQueries, kadalView, satelliteLayer, pendingSatellite>>

(* Escape, or the modal is closed *)
CloseSignInModal ==
    /\ showSignInModal
    /\ showSignInModal' = FALSE
    /\ UNCHANGED <<notKadal, kadalPage, kadalStatus, chatInput, chatMessages, chatLoading,
                   queries, pendingQueries, kadalView, satelliteLayer, pendingSatellite>>

KadalNext ==
    \/ \E st \in KadalStatuses : KadalSession(st)
    \/ \E text \in ChatInputs : setChatInput(text)
    \/ handleChatSubmit
    \/ \E i \in 1..MaxSubmits, o \in QueryOutcomes : QueryDone(i, o)
    \/ \E ok \in BOOLEAN : SatelliteDone(ok)
    \/ SignInModalTimer
    \/ CloseSignInModal

(* ========================== specifications ============================== *)
vars == <<pageVars, apiVars, simVars, webVars>>

IdleInput == CHOOSE i \in Inputs : TRUE
ApiUnused == caller = "heatmap" /\ input = IdleInput /\ ApiIdle
PageUnused == PageInit /\ page = "ui"
WebUnused == SitemapInit /\ RedirectIdle /\ RouteIdle /\ KadalIdle

(* the map page *)
Init == PageInit /\ ApiUnused /\ SimIdle /\ RenderIdle /\ WebUnused
Next == PageNext
Spec == Init /\ [][Next]_vars

(* one call of fetchSimilarityHeatmap / fetchEmbeddingData *)
InitApi == PageUnused /\ ApiInit /\ SimIdle /\ RenderIdle /\ WebUnused
NextApi == ApiNext
SpecApi == InitApi /\ [][NextApi]_vars

(* the same call when every pending fetch settles and every timer fires *)
SpecApiFair == SpecApi /\ WF_vars(NextApi)

(* one call of compute_similarity *)
InitSim == PageUnused /\ ApiUnused /\ SimInit /\ RenderIdle /\ WebUnused
NextSim == SimNext
SpecSim == InitSim /\ [][NextSim]_vars

(* the color mapping of one cell *)
InitColor == PageUnused /\ ApiUnused /\ SimIdle /\ RenderInit /\ WebUnused
NextColor == RenderNext
SpecColor == InitColor /\ [][NextColor]_vars

(* GET /sitemap.xml and the revalidation endpoint *)
InitSitemap == PageUnused /\ ApiUnused /\ SimIdle /\ RenderIdle /\ SitemapInit /\ RedirectIdle /\ RouteIdle /\ KadalIdle
NextSitemap == SitemapNext
SpecSitemap == InitSitemap /\ [][NextSitemap]_vars

(* one call of the redirect callback *)
InitRedirect == PageUnused /\ ApiUnused /\ SimIdle /\ RenderIdle /\ SitemapInit /\ RedirectInit /\ RouteIdle /\ KadalIdle
NextRedirect == RedirectNext
SpecRedirect == InitRedirect /\ [][NextRedirect]_vars

(* one ProtectedRoute on a page *)
InitRoute == PageUnused /\ ApiUnused /\ SimIdle /\ RenderIdle /\ SitemapInit /\ RedirectIdle /\ RouteInit /\ KadalIdle
NextRoute == RouteNext
SpecRoute == InitRoute /\ [][NextRoute]_vars

(* the chat of the Kadal page *)
InitKadal == PageUnused /\ ApiUnused /\ SimIdle /\ RenderIdle /\ SitemapInit /\ RedirectIdle /\ RouteIdle /\ KadalInit
NextKadal == KadalNext
SpecKadal == InitKadal /\ [][NextKadal]_vars

(* ============================ properties ================================ *)
Settles(id) == id \in 1..Len(reqs) /\ reqs[id].inflight /\ ~reqs'[id].inflight

C2_AtMostOneLiveRequest == Cardinality(LiveInFlight) <= 1

(* C3: every loadData(true) called on a mounted map starts a request for   *)
(* the current bounds and the selected years and leaves no older request   *)
(* running un-aborted: none is skipped.                                    *)
C3_LoadDataTrueStartsRequest == lastCall \in {"none", "nomap", "started"}

(* C4: once no heatmap request is in flight no processing interval is      *)
(* running, and a settling request clears no interval but its own.         *)
C4_NoIntervalLeak ==
    [][/\ InFlight' = {} => intervals' = {}
       /\ \A id \in 1..MaxRequests :
            Settles(id) => (intervals \ intervals') \subseteq {id}]_vars

(* ------------------------- SpecApi properties --------------------------- *)
ValidYear(y) == y >= FirstYear /\ y <= LastYear
InvalidInput ==
    \/ ~ValidYear(input.referenceYear)
    \/ ~ValidYear(input.targetYear)
    \/ input.north <= input.south

(* C5: for a year outside 2017..2024 or bounds with north <= south         *)
(* fetchSimilarityHeatmap issues no HTTP request and reports               *)
(* VALIDATION_ERROR.                                                       *)
C5_InvalidInputNoRequest ==
    (caller = "heatmap" /\ InvalidInput)
    => /\ fetchCount = 0
       /\ apiPc = "returned" => (fetchResult.kind = "error"
                                 /\ fetchResult.err.errorType = "VALIDATION_ERROR")

(* C6: the errorType fetchSimilarityHeatmap returns for a failed request   *)
(* is the error_type of the backend's failure response, for HTTP 200 with  *)
(* success:false and for non-2xx responses alike.                          *)
C6_ErrorTypePassedThrough ==
    (caller = "heatmap" /\ apiPc = "returned" /\ fetchResult.kind = "error"
       /\ lastResponse.json /\ lastResponse.error_type # "")
    => fetchResult.err.errorType = lastResponse.error_type

(* C7: when a request that was not cancelled fails, the page shows          *)
(* apiStatus 'error' with a non-null lastError, and heatmapData is not      *)
(* replaced by a result.                                                    *)
C7_FailureIsShown ==
    [][\A id \in 1..MaxRequests :
         (Settles(id) /\ ~reqs[id].aborted /\ mounted /\ reqs'[id].failed)
         => /\ apiStatus' = "error"
            /\ lastError' # NoLastError
            /\ heatmapData' \in {0, heatmapData}]_vars

(* a request that was not cancelled has failed on the mounted page *)
C7_Witness ==
    /\ mounted /\ apiStatus = "error" /\ lastError # NoLastError
    /\ \E id \in 1..Len(reqs) : ~reqs[id].inflight /\ ~reqs[id].aborted /\ reqs[id].failed

(* C8: a response with status 400..499 ends makeRequest with that attempt: *)
(* an error is returned and no fetch follows it.                           *)
C8_ClientErrorNotRetried ==
    (lastResponse.status >= 400 /\ lastResponse.status <= 499)
    => /\ apiPc \in {"done", "returned"}
       /\ Truthy(apiResult.error)
       /\ fetchCount = attempt + 1

(* a 4xx response has been received on a retry and the call has returned *)
C8_Witness ==
    /\ lastResponse.status >= 400 /\ lastResponse.status <= 499
    /\ apiPc = "returned" /\ fetchCount = 2

(* C9: a 503 AUTHENTICATION_ERROR response is not retried: exactly one     *)
(* fetch attempt is made before the error is returned.                     *)
C9_AuthErrorNotRetried ==
    (lastResponse.status = 503 /\ lastResponse.error_type = "AUTHENTICATION_ERROR")
    => /\ apiPc \in {"done", "returned"}
       /\ fetchCount = 1

(* ------------------------- SpecSim properties --------------------------- *)
(* C10: for two grids of the same shape compute_similarity returns a grid  *)
(* of that shape, and every non-missing score lies in [0, 1].              *)
C10_SameShapeScoresInRange ==
    (simPc = "done" /\ Shape(gridRef) = Shape(gridTarget))
    => /\ simResult.status = "ok"
       /\ Shape(simResult.grid) = Shape(gridRef)
       /\ \A r \in 1..Len(simResult.grid) : \A c \in 1..Len(simResult.grid[r]) :
            ~simResult.grid[r][c].missing
            => (simResult.grid[r][c].score >= 0 /\ simResult.grid[r][c].score <= ScoreScale)

(* a two-cell grid was scored, with an opposite pair and a missing cell *)
C10_Witness ==
    /\ simPc = "done" /\ simResult.status = "ok"
    /\ Len(simResult.grid) * Len(simResult.grid[1]) = 2
    /\ \E r \in 1..Len(simResult.grid) : \E c \in 1..Len(simResult.grid[r]) :
         ~simResult.grid[r][c].missing /\ simResult.grid[r][c].score = 0
    /\ \E r \in 1..Len(simResult.grid) : \E c \in 1..Len(simResult.grid[r]) :
         simResult.grid[r][c].missing

Cells(g) == {<<r, c>> : r \in 1..Len(g), c \in 1..Len(g[1])}
CellCount(g) == Len(g) * Len(g[1])
Negated(a) == [i \in 1..VecDim |-> 0 - a[i]]

(* C11: grids that differ in row count or column count (with equal or      *)
(* different cell counts) give SHAPE_MISMATCH and no scores at all.        *)
C11_ShapeMismatchNoScores ==
    (simPc = "done" /\ Shape(gridRef) # Shape(gridTarget))
    => /\ simResult.status = "SHAPE_MISMATCH"
       /\ simResult.grid = <<>>
       /\ ~simResult.statistics.available

(* a 1 x 2 grid was compared with a 2 x 1 grid: same cell count, other shape *)
C11_Witness ==
    /\ simPc = "done" /\ simResult.status = "SHAPE_MISMATCH"
    /\ CellCount(gridRef) = CellCount(gridTarget)
    /\ Len(gridRef) # Len(gridTarget)

(* C12: a cell is missing exactly when one of its two vectors has near-zero *)
(* norm; the statistics are taken over the non-missing cells only; when    *)
(* every cell is missing they are unavailable and no numbers are shown.    *)
C12_MissingCellsAndStatistics ==
    (simPc = "done" /\ simResult.status = "ok")
    => LET g == simResult.grid
           st == simResult.statistics
           present == {p \in Cells(g) : ~g[p[1]][p[2]].missing}
       IN  /\ \A p \in Cells(g) :
                g[p[1]][p[2]].missing
                <=> (NearZero(gridRef[p[1]][p[2]]) \/ NearZero(gridTarget[p[1]][p[2]]))
           /\ st.available <=> present # {}
           /\ ~st.available => (st = Unavailable /\ ~StatisticsPanel(st).shown)
           /\ st.available =>
                /\ \E p \in present : g[p[1]][p[2]].score = st.min
                /\ \E p \in present : g[p[1]][p[2]].score = st.max
                /\ \A p \in present : st.min <= g[p[1]][p[2]].score /\ g[p[1]][p[2]].score <= st.max
                /\ st.min <= st.mean /\ st.mean <= st.max
                /\ StatisticsPanel(st).shown

(* two cells, each with a zero vector in only one of the grids: all missing *)
C12_Witness ==
    /\ simPc = "done" /\ simResult.status = "ok" /\ CellCount(simResult.grid) = 2
    /\ \A p \in Cells(simResult.grid) : simResult.grid[p[1]][p[2]].missing
    /\ \E p \in Cells(gridRef) : ~NearZero(gridRef[p[1]][p[2]])
    /\ \E p \in Cells(gridTarget) : ~NearZero(gridTarget[p[1]][p[2]])
    /\ simResult.statistics = Unavailable

(* C13: for same-shape grids, compute_similarity(G1, G2) and               *)
(* compute_similarity(G2, G1) agree in every cell.                         *)
C13_Symmetric ==
    (simPc = "done" /\ Shape(gridRef) = Shape(gridTarget))
    => simResult.grid = compute_similarity(gridTarget, gridRef).grid

(* two different grids were compared, one cell missing and one scored *)
C13_Witness ==
    /\ simPc = "done" /\ simResult.status = "ok" /\ gridRef # gridTarget
    /\ \E p \in Cells(simResult.grid) : simResult.grid[p[1]][p[2]].missing
    /\ \E p \in Cells(simResult.grid) :
         /\ ~simResult.grid[p[1]][p[2]].missing
         /\ simResult.grid[p[1]][p[2]].score \notin {0, ScoreScale}

(* C14: a cell whose two vectors are identical and non-zero scores 1.0, a  *)
(* cell whose vectors are exactly opposite scores 0.0, and a cell whose    *)
(* vectors are orthogonal scores 0.5: the cosine shifted by (sim + 1) / 2. *)
C14_IdenticalOneOppositeZero ==
    (simPc = "done" /\ simResult.status = "ok")
    => \A p \in Cells(simResult.grid) :
         LET a == gridRef[p[1]][p[2]]
             b == gridTarget[p[1]][p[2]]
             cell == simResult.grid[p[1]][p[2]]
         IN  ~NearZero(a) =>
               /\ a = b => (~cell.missing /\ cell.score = ScoreScale)
               /\ a = Negated(b) => (~cell.missing /\ cell.score = 0)
               /\ (~NearZero(b) /\ Dot(a, b) = 0)
                    => (~cell.missing /\ cell.score = ScoreScale \div 2)

(* one cell with identical vectors of norm > 1, one with opposite vectors *)
C14_Witness ==
    /\ simPc = "done" /\ simResult.status = "ok"
    /\ \E p \in Cells(gridRef) :
         /\ gridRef[p[1]][p[2]] = gridTarget[p[1]][p[2]]
         /\ Norm2(gridRef[p[1]][p[2]]) > 1
         /\ simResult.grid[p[1]][p[2]].score = ScoreScale
    /\ \E p \in Cells(gridRef) :
         /\ ~NearZero(gridRef[p[1]][p[2]])
         /\ gridRef[p[1]][p[2]] = Negated(gridTarget[p[1]][p[2]])
         /\ simResult.grid[p[1]][p[2]].score = 0

(* ------------------------ SpecColor properties -------------------------- *)
Between(x, a, b) == (a <= x /\ x <= b) \/ (b <= x /\ x <= a)

(* C15: every RGB channel is interpolated linearly between the two anchors *)
(* enclosing the score; score 0.0 gives the first anchor (#000004), score  *)
(* 1.0 the last (#FCFDBF), and the legend's key colors lie on the ramp; a  *)
(* scored cell is opaque and a missing cell has alpha 0.                   *)
C15_ColorRampEndpointsAndMissing ==
    renderPc = "done"
    => IF renderCell.missing
       THEN pixel.alpha = Transparent /\ pixel # RenderPixel([missing |-> FALSE, score |-> 0])
       ELSE LET s == renderCell.score
                lo == Anchors[AnchorIndex(s) + 1]
                hi == Anchors[AnchorIndex(s) + 2]
            IN  /\ pixel.alpha = Opaque
                /\ AnchorIndex(s) * ScoreScale <= s * Intervals
                /\ s * Intervals <= (AnchorIndex(s) + 1) * ScoreScale
                /\ \A ch \in 1..3 :
                     /\ Between(pixel.rgb[ch], lo[ch], hi[ch])
                     /\ ScoreScale * (pixel.rgb[ch] - lo[ch]) <= (hi[ch] - lo[ch]) * Offset(s)
                     /\ ScoreScale * (pixel.rgb[ch] - lo[ch] + 1) > (hi[ch] - lo[ch]) * Offset(s)
                /\ s = 0 => pixel.rgb = Anchors[1]
                /\ s = ScoreScale => pixel.rgb = Anchors[Len(Anchors)]
                /\ \A k \in LegendKeyPoints : s = k[1] => pixel.rgb = k[2]

(* score 1.0 has been rendered: the last anchor, opaque *)
C15_Witness ==
    /\ renderPc = "done" /\ ~renderCell.missing /\ renderCell.score = ScoreScale
    /\ pixel = [rgb |-> <<252, 253, 191>>, alpha |-> 255]

(* ------------------------ SpecApiFair properties ------------------------ *)
Returned(pc) == pc \in {"done", "returned"}
HasData(result) == result.data # NoResp
(* a response arrives in this step *)
Receives == apiPc = "fetching" /\ lastResponse' # NoResp
(* a retry is decided in this step *)
Retries == apiPc = "fetching" /\ apiPc' = "delay"

(* what C16 says besides the cause of a retry: at most maxRetries + 1      *)
(* fetches, a result with either data or an error, delays of 1 s, 2 s      *)
AttemptsAndResult ==
    /\ fetchCount' <= maxRetries + 1
    /\ Returned(apiPc') => (HasData(apiResult') # Truthy(apiResult'.error))
    /\ Len(delays') <= maxRetries
    /\ \A i \in 1..Len(delays') : delays'[i] = 1000 * i

C17_EveryAttemptHasTimeout ==
    apiPc = "fetching" => timeoutMs = baseTimeout + attempt * timeoutStep

(* C18: if the caller's signal is aborted while a fetch attempt is pending *)
(* the call returns { error: 'Request cancelled' } without another         *)
(* attempt; if it is aborted during a retry delay no later attempt reaches *)
(* the network and the call ends as cancelled.                             *)
C18_AbortEndsCallAsCancelled ==
    [][/\ (SignalGiven /\ signalAborted /\ apiPc = "fetching" /\ bodyRead = NoResp)
           => /\ apiPc' = "done"
              /\ apiResult' = ApiError(Str({"cancelled"}))
              /\ fetchCount' = fetchCount
       /\ (SignalGiven /\ signalAborted /\ apiPc \in {"delay", "attempt"})
           => /\ apiPc' \in {"attempt", "done"}
              /\ apiPc' = "done" => apiResult' = ApiError(Str({"cancelled"}))]_vars

(* the call was aborted in its third attempt and has returned as cancelled *)
C18_Witness ==
    /\ apiPc = "returned" /\ signalAborted /\ attempt = maxRetries
    /\ delays = <<1000, 2000>>
    /\ apiResult = ApiError(Str({"cancelled"}))
    /\ fetchResult.kind = "error"

(* C19: a heatmap request that completes after a request started later     *)
(* has put its data on the page leaves that data in place: the completion  *)
(* of request id never changes heatmapData when heatmapData holds the      *)
(* response of a request started after id.                                 *)
C19_OlderNeverReplacesNewer ==
    [][\A id \in 1..MaxRequests :
          (Settles(id) /\ heatmapData > id) => heatmapData' = heatmapData]_vars

(* a map move: a timeout is set that was not pending before *)
Moves == \E t \in timers' : t.left = debounceMs /\ t \notin timers

(* a debounce timeout fires: it is due and it is gone, with the page still  *)
(* mounted and no move setting another                                     *)
Fires == mounted' /\ ~Moves /\ \E t \in timers : t.left = 0 /\ t \notin timers'

(* C20: map moves are debounced: at most one debounce timeout is pending;  *)
(* a move calls no loadData and leaves one timeout pending, the one in     *)
(* loadDataTimeout.current, due a full debounce interval after this move;  *)
(* the timeout that fires is due, calls loadData(true) once and leaves     *)
(* none pending.                                                           *)
C20_MovesAreDebounced ==
    [][/\ Cardinality(timers) <= 1
       /\ Moves => /\ lastCall' = lastCall
                   /\ reqs' = reqs
                   /\ currentRequest' = currentRequest
                   /\ \E t \in timers' :
                         /\ timers' = {t}
                         /\ t.left = debounceMs
                         /\ t.id = loadDataTimeout'
       /\ Fires => /\ timers' = {}
                   /\ lastCall' # "none"
                   /\ Len(reqs') <= Len(reqs) + 1]_vars

(* a debounce timeout has fired and its loadData(true) started a request   *)
C20_Witness ==
    /\ mounted
    /\ timers = {}
    /\ loadDataTimeout # 0
    /\ currentRequest # 0
    /\ lastCall \in {"started", "stale", "unaborted"}

(* something the status indicator can be waiting for: a heatmap request,   *)
(* a health check, or the initial load that follows a health check         *)
SomethingPending == InFlight # {} \/ healthChecks # <<>> \/ initialLoadTimers # <<>>

(* C21: while the page is mounted and apiStatus is 'loading', a heatmap    *)
(* request or the initial health check (with the initial load it           *)
(* schedules) is pending.                                                  *)
C21_LoadingMeansPending == (mounted /\ apiStatus = "loading") => SomethingPending

(* a GET /sitemap.xml arrives: it is answered from the cache or starts     *)
(* discoverPages                                                           *)
GetArrives == Len(discovering') > Len(discovering) \/ sitemapResponse'.cached

(* C23: a sitemap answered from the cache is the content of the most       *)
(* recent setCachedSitemap call, made at most CACHE_DURATION earlier; a    *)
(* GET that finds the entry older than CACHE_DURATION gets nothing from    *)
(* the cache and the entry is discarded.                                   *)
C23_CacheServesAtMostOneHour ==
    [][/\ sitemapResponse'.cached =>
            /\ sitemapResponse'.body = stored'.content
            /\ now' - stored'.timestamp <= CACHE_DURATION
       /\ (GetArrives /\ sitemapCache # NoCache
             /\ now - stored.timestamp > CACHE_DURATION) =>
            /\ sitemapCache' = NoCache
            /\ ~sitemapResponse'.cached]_vars

(* a sitemap served from the cache exactly one hour after it was stored    *)
C23_Witness ==
    /\ sitemapResponse.cached
    /\ sitemapResponse.body = stored.content
    /\ now - stored.timestamp = CACHE_DURATION

(* C24: after a successful revalidation POST no GET /sitemap.xml is        *)
(* answered with the XML that was in the cache at the revalidation.        *)
C24_GetAfterRevalidationRegenerates == sitemapResponse.cached => ~revalidatedEntry

(* C25: every sitemap response carries, in its <loc> elements, the         *)
(* protocol and host of the request it answers.                            *)
C25_LocUsesRequestOrigin ==
    sitemapResponse # NoSitemapResponse => LocOrigin(sitemapResponse.body) = sitemapResponse.siteUrl

(* the cleanup of the first effect runs *)
Unmounts == mounted /\ ~mounted'

(* C22: when the map page (ui/src/app/map/page.tsx) unmounts, no debounce  *)
(* timeout and no processing interval is left pending, no heatmap request  *)
(* is left in flight without its signal aborted and currentRequest is      *)
(* null; after the unmount no heatmap request is started.                  *)
C22_UnmountCleansUp ==
    [][page = "ui" =>
          /\ Unmounts => /\ timers' = {}
                         /\ intervals' = {}
                         /\ LiveInFlight' = {}
                         /\ currentRequest' = 0
                         /\ processingTimer' = 0
          /\ ~mounted => /\ Len(reqs') = Len(reqs)
                         /\ intervals' = {}
                         /\ timers' = {}]_vars

(* the page was unmounted with a request in flight, after a map move, and  *)
(* the 1 s initial-load timer is still to fire                             *)
C22_Witness ==
    /\ page = "ui" /\ ~mounted
    /\ \E id \in 1..Len(reqs) : reqs[id].inflight /\ reqs[id].aborted
    /\ loadDataTimeout # 0
    /\ initialLoadTimers # <<>>

(* the URL is on the origin of the application *)
OwnOrigin(url, baseUrl) == Origin(url) = baseUrl

(* C26: the redirect callback returns a URL on the application's own       *)
(* origin: baseUrl + '/kadal' for every url that contains '/kadal' and     *)
(* for every url of another origin, and the url itself only when its       *)
(* origin is baseUrl.                                                      *)
C26_RedirectStaysOnOrigin ==
    redirectPc = "done" =>
        /\ OwnOrigin(redirectResult, redirectBase)
        /\ (UrlIncludes(redirectUrl, KadalPath) \/ ~OwnOrigin(redirectUrl, redirectBase))
              => redirectResult = redirectBase \o <<KadalPath>>
        /\ redirectResult = redirectUrl => OwnOrigin(redirectUrl, redirectBase)

(* C27: ProtectedRoute shows its children only when the status is not      *)
(* 'loading' and there is a session; once its effect has run with a        *)
(* status other than 'loading' and no session, router.push was called      *)
(* with /auth/signin and a callbackUrl that reads back as the current      *)
(* path; the effect pushes nothing else.                                   *)
C27_ChildrenOnlyWithSession ==
    /\ rendered = "children" => (sessionStatus # "loading" /\ session # NoSession)
    /\ (~effectPending /\ sessionStatus # "loading" /\ session = NoSession) =>
          /\ pushed # NoPush
          /\ pushed[1] = "/auth/signin?callbackUrl="
          /\ QueryValue(Tail(pushed)) = pathname
    /\ pushed # NoPush => (sessionStatus # "loading" /\ session = NoSession)

(* signed out on a path with a '/' and a '&' inside: the redirect was made *)
C27_Witness ==
    /\ rendered = "redirecting"
    /\ sessionStatus = "unauthenticated"
    /\ pushed = SignInUrl(pathname)
    /\ pathname = <<"/", "account", "&">>

(* a query is given to fetch in this step *)
QuerySent == Len(queries') > Len(queries)

(* C28: on the Kadal page with sign-in (ui/src/app/kadal/page.tsx and      *)
(* part_003), while the status is not 'authenticated' no step sends a      *)
(* query or appends a message; a query is sent only for input that is      *)
(* not blank, while no query is loading and the status is                  *)
(* 'authenticated', and it is the trimmed input.                           *)
C28_QueryOnlyWhenAuthenticated ==
    [][kadalPage # "part_002" =>
          /\ (kadalStatus # "authenticated" /\ pendingQueries = <<>> /\ ~pendingSatellite) =>
                /\ queries' = queries
                /\ chatMessages' = chatMessages
                /\ chatLoading' = chatLoading
          /\ QuerySent =>
                /\ Trim(chatInput) # <<>>
                /\ ~chatLoading
                /\ kadalStatus = "authenticated"
                /\ queries' = Append(queries, Trim(chatInput))]_vars

(* a submission while signed out has opened the modal and sent nothing     *)
C28_Witness ==
    /\ kadalPage # "part_002"
    /\ kadalStatus = "loading"
    /\ showSignInModal
    /\ Trim(chatInput) # <<>>
    /\ queries = <<>>
    /\ chatMessages = <<>>

(* a submission finishes in this step *)
Finishes == Len(pendingQueries') < Len(pendingQueries)

(* C29: an accepted submission appends one user message; when it finishes  *)
(* exactly one assistant message is appended, the reply or an error        *)
(* message, and isLoading is false.                                        *)
C29_OneReplyPerSubmission ==
    [][/\ QuerySent =>
            /\ Len(chatMessages') = Len(chatMessages) + 1
            /\ chatMessages'[Len(chatMessages')].isUser
       /\ Finishes =>
            /\ Len(chatMessages') = Len(chatMessages) + 1
            /\ ~chatMessages'[Len(chatMessages')].isUser
            /\ ~chatLoading']_vars

====
